---- MODULE Spec2Model ----
(***************************************************************************)
(* Model of scripts/check_macos_env.py: the three environment checks       *)
(* (macOS version, Xcode version, Metal toolchain), their mock overrides,  *)
(* the aggregation in main, the renderers and the exit status.             *)
(*                                                                         *)
(* A Python str is modelled as a Text: a sequence of fragments.  Version   *)
(* strings are spelled one character per fragment, so that split, int and  *)
(* the regular expressions work on them as they do in Python; a literal    *)
(* the code only prints or searches for as a whole is a single fragment.   *)
(* An Optional value is None (the empty tuple) or Some(v) (a 1-tuple).     *)
(***************************************************************************)
EXTENDS Integers, Sequences, FiniteSets, TLC

VARIABLES
    env,            \* os.environ: the three MOCK_* variables, each None or Some(Text)
    args,           \* argparse result: [json, quiet]
    pc,             \* position of main
    results,        \* main's list of CheckResult
    all_passed,     \* main's all_passed, None until line 402 has run
    trace,          \* external interactions so far: platform.system() and subprocess.run
    rendered,       \* the renderers main has called, in order
    stdout,         \* the lines printed so far
    exit_code,      \* None, or Some(status) once the process has ended
    call            \* a direct call of one check function (specification SpecCall)

vars == <<env, args, pc, results, all_passed, trace, rendered, stdout, exit_code, call>>

---------------------------------------------------------------------------
(* Bounds of the input space. *)

\* Versions tried lie within Spread majors of the requirement ...
Spread == 1
\* ... and have minors 0..MaxMinor.
MaxMinor == 1

---------------------------------------------------------------------------
(* Python values *)

None == << >>
Some(v) == << v >>
Truthy(o) == o # None /\ o[1] # << >>      \* `if x:` for an Optional[str]

Min2(a, b) == IF a <= b THEN a ELSE b

Digit == {"0", "1", "2", "3", "4", "5", "6", "7", "8", "9"}
Whitespace == {" ", "\n", "\t"}

DigitVal(c) ==
    CASE c = "0" -> 0 [] c = "1" -> 1 [] c = "2" -> 2 [] c = "3" -> 3 [] c = "4" -> 4
      [] c = "5" -> 5 [] c = "6" -> 6 [] c = "7" -> 7 [] c = "8" -> 8 [] c = "9" -> 9

DigitChar(d) ==
    CASE d = 0 -> "0" [] d = 1 -> "1" [] d = 2 -> "2" [] d = 3 -> "3" [] d = 4 -> "4"
      [] d = 5 -> "5" [] d = 6 -> "6" [] d = 7 -> "7" [] d = 8 -> "8" [] d = 9 -> "9"

\* str.strip()
RECURSIVE lstrip(_)
lstrip(s) == IF s # << >> /\ Head(s) \in Whitespace THEN lstrip(Tail(s)) ELSE s

RECURSIVE rstrip(_)
rstrip(s) ==
    IF s # << >> /\ s[Len(s)] \in Whitespace THEN rstrip(SubSeq(s, 1, Len(s) - 1)) ELSE s

strip(s) == rstrip(lstrip(s))

\* str.split(sep): the pieces between the occurrences of sep, never empty as a list
RECURSIVE split(_, _)
split(s, sep) ==
    IF \E i \in 1..Len(s) : s[i] = sep
    THEN LET i == CHOOSE k \in 1..Len(s) : s[k] = sep /\ \A j \in 1..(k - 1) : s[j] # sep
         IN  <<SubSeq(s, 1, i - 1)>> \o split(SubSeq(s, i + 1, Len(s)), sep)
    ELSE <<s>>

RECURSIVE DigitsValue(_)
DigitsValue(s) ==
    IF s = << >> THEN 0
    ELSE 10 * DigitsValue(SubSeq(s, 1, Len(s) - 1)) + DigitVal(s[Len(s)])

\* int(s): surrounding whitespace is ignored, one sign is allowed, single
\* underscores may separate digits; anything else is a ValueError (ok = FALSE).
int(s) ==
    LET t    == strip(s)
        sgn  == t # << >> /\ Head(t) \in {"+", "-"}
        body == IF sgn THEN Tail(t) ELSE t
        good == /\ body # << >>
                /\ \A i \in 1..Len(body) : body[i] \in Digit \cup {"_"}
                /\ body[1] \in Digit
                /\ body[Len(body)] \in Digit
                /\ \A i \in 1..(Len(body) - 1) : ~(body[i] = "_" /\ body[i + 1] = "_")
        mag  == DigitsValue(SelectSeq(body, LAMBDA c : c # "_"))
    IN  IF good
        THEN [ok |-> TRUE, val |-> IF sgn /\ Head(t) = "-" THEN 0 - mag ELSE mag]
        ELSE [ok |-> FALSE, val |-> 0]

\* str(n) of an int, as an f-string formats it
RECURSIVE str(_)
str(n) ==
    IF n < 0 THEN <<"-">> \o str(0 - n)
    ELSE IF n < 10 THEN <<DigitChar(n)>>
    ELSE str(n \div 10) \o <<DigitChar(n % 10)>>

\* The longest run of digits at the start of s (the regular expression \d+)
RECURSIVE DigitRun(_)
DigitRun(s) ==
    IF s # << >> /\ Head(s) \in Digit THEN <<Head(s)>> \o DigitRun(Tail(s)) ELSE << >>

\* a, b = map(int, v.split(".")[:2]): two ints, or a ValueError (ok = FALSE)
MajorMinor(v) ==
    LET parts == split(v, ".")
        two   == SubSeq(parts, 1, Min2(2, Len(parts)))
    IN  IF Len(two) = 2 /\ int(two[1]).ok /\ int(two[2]).ok
        THEN [ok |-> TRUE, major |-> int(two[1]).val, minor |-> int(two[2]).val]
        ELSE [ok |-> FALSE, major |-> 0, minor |-> 0]

\* int(v.split(".")[0]): one int, or a ValueError (ok = FALSE)
MajorOnly(v) == int(split(v, ".")[1])

---------------------------------------------------------------------------
(* Configuration *)

REQUIRED_MACOS_VERSION == <<"1", "5", ".", "0">>
REQUIRED_XCODE_VERSION == <<"1", "6", ".", "0">>

---------------------------------------------------------------------------
(* CheckResult and the outcome of a check function *)

CheckResult(name, passed, version, message, fix_command) ==
    [name |-> name, passed |-> passed, version |-> version,
     message |-> message, fix_command |-> fix_command]

NoResult == CheckResult("", FALSE, None, << >>, None)

\* A check function returns a result, or lets an exception escape (raised).
\* ext lists what it asked of the outside world on the way.
Return(r, ext) == [raised |-> FALSE, result |-> r, ext |-> ext]
Raise(ext)     == [raised |-> TRUE, result |-> NoResult, ext |-> ext]

\* What the outside world answers.  platform.system() gives a name;
\* subprocess.run gives a CompletedProcess or raises.
NoExc == [type |-> "", text |-> << >>]
Completed(returncode, out, err) ==
    [kind |-> "completed", returncode |-> returncode, stdout |-> out, stderr |-> err,
     exc |-> NoExc]
Raised(type, text) ==
    [kind |-> "raised", returncode |-> 0, stdout |-> << >>, stderr |-> << >>,
     exc |-> [type |-> type, text |-> text]]
System(name) ==
    [kind |-> name, returncode |-> 0, stdout |-> << >>, stderr |-> << >>, exc |-> NoExc]

Ext(what, answer) == [call |-> what, ret |-> answer]

\* The exception classes the model raises; all derive from Exception.
ExceptionTypes == {"FileNotFoundError", "TimeoutExpired", "PermissionError", "ValueError"}

---------------------------------------------------------------------------
(* check_macos_version *)

\* passed, in the mocked path
MacosMockPassed(major, minor, req_major, req_minor) ==
    (major > req_major) \/ (major = req_major /\ minor >= req_minor)

\* Mutant: each component compared on its own
MacosProbePassedPerComponent(major, minor, req_major, req_minor) ==
    major >= req_major /\ minor >= req_minor

\* passed, in the real-probe path
MacosProbePassed(major, minor, req_major, req_minor) ==
    (major > req_major) \/ (major = req_major /\ minor >= req_minor)

\* The result of the mocked path
MacosMockResult(major, minor, required_version, passed) ==
    LET current_version == str(major) \o <<".">> \o str(minor)
    IN  CheckResult("macOS Version", passed, Some(current_version),
            <<"macOS ">> \o current_version
                \o <<" ", IF passed THEN "meets" ELSE "does not meet", " requirement (>= ">>
                \o required_version \o <<")">>,
            IF ~passed
            THEN Some(<<"Upgrade to macOS ">> \o required_version \o <<" or later">>)
            ELSE None)

\* The result of the real-probe path once a version was parsed
MacosProbeResult(major, minor, required_version, passed) ==
    LET current_version == str(major) \o <<".">> \o str(minor)
    IN  CheckResult("macOS Version", passed, Some(current_version),
            <<"macOS ">> \o current_version
                \o <<" ", IF passed THEN "meets" ELSE "does not meet", " requirement (>= ">>
                \o required_version \o <<")">>,
            IF ~passed
            THEN Some(<<"Upgrade to macOS ">> \o required_version \o <<" or later">>)
            ELSE None)

\* Mutant: a malformed override fails the check instead of being ignored
MacosOverrideRejecting(required_version, mock_version) ==
    IF ~Truthy(mock_version) THEN None
    ELSE LET cur == MajorMinor(mock_version[1])
             req == MajorMinor(required_version)
         IN  IF cur.ok /\ req.ok
             THEN Some(MacosMockResult(cur.major, cur.minor, required_version,
                          MacosMockPassed(cur.major, cur.minor, req.major, req.minor)))
             ELSE Some(CheckResult("macOS Version", FALSE, None,
                                   <<"Invalid MOCK_MACOS_VERSION">>, None))

\* The mock override: Some(result), or None when the probe must run (the variable
\* is unset or empty, or a ValueError was swallowed)
MacosOverride(required_version, mock_version) ==
    IF ~Truthy(mock_version) THEN None
    ELSE LET cur == MajorMinor(mock_version[1])
             req == MajorMinor(required_version)
         IN  IF cur.ok /\ req.ok
             THEN Some(MacosMockResult(cur.major, cur.minor, required_version,
                          MacosMockPassed(cur.major, cur.minor, req.major, req.minor)))
             ELSE None

MacosNotDarwin ==
    CheckResult("macOS Version", FALSE, None, <<"Not running on macOS">>,
                Some(<<"This check is only applicable on macOS systems">>))

MacosNonZero ==
    CheckResult("macOS Version", FALSE, None, <<"Failed to detect macOS version">>,
                Some(<<"Ensure sw_vers command is available">>))

\* Mutant: the message does not repeat what sw_vers printed
MacosUnparsedQuiet(version_str) ==
    CheckResult("macOS Version", FALSE, Some(version_str),
                <<"Could not parse macOS version">>, None)

MacosUnparsed(version_str) ==
    CheckResult("macOS Version", FALSE, Some(version_str),
                <<"Could not parse macOS version: ">> \o version_str, None)

\* re.match(r"(\d+)\.(\d+)", s)
MacosVersionMatch(s) ==
    LET a    == DigitRun(s)
        rest == SubSeq(s, Len(a) + 1, Len(s))
        b    == IF rest # << >> /\ Head(rest) = "." THEN DigitRun(Tail(rest)) ELSE << >>
    IN  IF a # << >> /\ b # << >>
        THEN [ok |-> TRUE, g1 |-> a, g2 |-> b]
        ELSE [ok |-> FALSE, g1 |-> << >>, g2 |-> << >>]

ValueErrorExc == [type |-> "ValueError", text |-> <<"invalid version number">>]

\* The body of the try statement: a result, or the exception it raises
MacosTry(required_version, run) ==
    IF run.kind = "raised" THEN [raised |-> TRUE, exc |-> run.exc, result |-> NoResult]
    ELSE IF run.returncode # 0
    THEN [raised |-> FALSE, exc |-> NoExc, result |-> MacosNonZero]
    ELSE LET version_str   == strip(run.stdout)
             version_match == MacosVersionMatch(version_str)
             req           == MajorMinor(required_version)
         IN  IF ~version_match.ok
             THEN [raised |-> FALSE, exc |-> NoExc, result |-> MacosUnparsed(version_str)]
             ELSE IF ~req.ok
             THEN [raised |-> TRUE, exc |-> ValueErrorExc, result |-> NoResult]
             ELSE LET major == int(version_match.g1).val
                      minor == int(version_match.g2).val
                  IN  [raised |-> FALSE, exc |-> NoExc,
                       result |-> MacosProbeResult(major, minor, required_version,
                                     MacosProbePassed(major, minor, req.major, req.minor))]

\* Mutant: only a missing command is handled
MacosExceptNotFoundOnly(exc) ==
    IF exc.type = "FileNotFoundError"
    THEN [caught |-> TRUE,
          result |-> CheckResult("macOS Version", FALSE, None,
                                 <<"Error checking macOS version: ">> \o exc.text, None)]
    ELSE [caught |-> FALSE, result |-> NoResult]

\* except Exception as e
MacosExcept(exc) ==
    IF exc.type \in ExceptionTypes
    THEN [caught |-> TRUE,
          result |-> CheckResult("macOS Version", FALSE, None,
                                 <<"Error checking macOS version: ">> \o exc.text, None)]
    ELSE [caught |-> FALSE, result |-> NoResult]

\* platform_system and run are the answers the host gives if it is asked
check_macos_version(required_version, mock_version, platform_system, run) ==
    LET override == MacosOverride(required_version, mock_version)
        asked    == <<Ext("platform.system", System(platform_system))>>
    IN  IF override # None THEN Return(override[1], << >>)
        ELSE IF platform_system # "Darwin" THEN Return(MacosNotDarwin, asked)
        ELSE LET t   == MacosTry(required_version, run)
                 ext == asked \o <<Ext("sw_vers", run)>>
             IN  IF ~t.raised THEN Return(t.result, ext)
                 ELSE IF MacosExcept(t.exc).caught
                 THEN Return(MacosExcept(t.exc).result, ext)
                 ELSE Raise(ext)

---------------------------------------------------------------------------
(* check_xcode_version *)

\* Mutant: strictly newer than the requirement
XcodeMockPassedStrict(current_major, req_major) == current_major > req_major

\* passed, in the mocked path
XcodeMockPassed(current_major, req_major) == current_major >= req_major

\* Mutant: strictly newer than the requirement
XcodeProbePassedStrict(current_major, req_major) == current_major > req_major

\* passed, in the real-probe path
XcodeProbePassed(current_major, req_major) == current_major >= req_major

XcodeMockResult(mock_version, required_version, passed) ==
    CheckResult("Xcode Version", passed, Some(mock_version),
        <<"Xcode ">> \o mock_version
            \o <<" ", IF passed THEN "meets" ELSE "does not meet", " requirement (>= ">>
            \o required_version \o <<")">>,
        IF ~passed
        THEN Some(<<"Upgrade to Xcode ">> \o required_version
                    \o <<" or later from the App Store">>)
        ELSE None)

XcodeProbeResult(version_str, required_version, passed) ==
    CheckResult("Xcode Version", passed, Some(version_str),
        <<"Xcode ">> \o version_str
            \o <<" ", IF passed THEN "meets" ELSE "does not meet", " requirement (>= ">>
            \o required_version \o <<")">>,
        IF ~passed
        THEN Some(<<"Upgrade to Xcode ">> \o required_version
                    \o <<" or later from the App Store">>)
        ELSE None)

XcodeOverride(required_version, mock_version) ==
    IF ~Truthy(mock_version) THEN None
    ELSE LET cur == MajorOnly(mock_version[1])
             req == MajorOnly(required_version)
         IN  IF cur.ok /\ req.ok
             THEN Some(XcodeMockResult(mock_version[1], required_version,
                                       XcodeMockPassed(cur.val, req.val)))
             ELSE None

XcodeNonZero ==
    CheckResult("Xcode Version", FALSE, None,
                <<"Xcode not found or not properly installed">>,
                Some(<<"Install Xcode 16 or later from the App Store">>))

XcodeUnparsed(output) ==
    CheckResult("Xcode Version", FALSE, None,
                <<"Could not parse Xcode version from: ">> \o output,
                Some(<<"Ensure Xcode is properly installed">>))

\* re.search(r"Xcode\s+(\d+(?:\.\d+)?)", s) matches at position i
XcodeMatchAt(s, i) ==
    LET after == SubSeq(s, i + 1, Len(s))
    IN  /\ s[i] = "Xcode"
        /\ Len(lstrip(after)) < Len(after)
        /\ DigitRun(lstrip(after)) # << >>

\* re.search(r"Xcode\s+(\d+(?:\.\d+)?)", s): the leftmost match and its group 1
XcodeVersionSearch(s) ==
    IF \E i \in 1..Len(s) : XcodeMatchAt(s, i)
    THEN LET i    == CHOOSE k \in 1..Len(s) :
                        XcodeMatchAt(s, k) /\ \A j \in 1..(k - 1) : ~XcodeMatchAt(s, j)
             rest == lstrip(SubSeq(s, i + 1, Len(s)))
             a    == DigitRun(rest)
             r2   == SubSeq(rest, Len(a) + 1, Len(rest))
             b    == IF r2 # << >> /\ Head(r2) = "." THEN DigitRun(Tail(r2)) ELSE << >>
         IN  [ok |-> TRUE, g1 |-> IF b # << >> THEN a \o <<".">> \o b ELSE a]
    ELSE [ok |-> FALSE, g1 |-> << >>]

XcodeTry(required_version, run) ==
    IF run.kind = "raised" THEN [raised |-> TRUE, exc |-> run.exc, result |-> NoResult]
    ELSE IF run.returncode # 0
    THEN [raised |-> FALSE, exc |-> NoExc, result |-> XcodeNonZero]
    ELSE LET output        == strip(run.stdout)
             version_match == XcodeVersionSearch(output)
             req           == MajorOnly(required_version)
         IN  IF ~version_match.ok
             THEN [raised |-> FALSE, exc |-> NoExc, result |-> XcodeUnparsed(output)]
             ELSE IF ~req.ok
             THEN [raised |-> TRUE, exc |-> ValueErrorExc, result |-> NoResult]
             ELSE LET version_str   == version_match.g1
                      current_major == MajorOnly(version_str).val
                  IN  [raised |-> FALSE, exc |-> NoExc,
                       result |-> XcodeProbeResult(version_str, required_version,
                                     XcodeProbePassed(current_major, req.val))]

\* except FileNotFoundError / except Exception as e
XcodeExcept(exc) ==
    IF exc.type = "FileNotFoundError"
    THEN [caught |-> TRUE,
          result |-> CheckResult("Xcode Version", FALSE, None,
                                 <<"xcodebuild command not found">>,
                                 Some(<<"Install Xcode 16 or later from the App Store">>))]
    ELSE IF exc.type \in ExceptionTypes
    THEN [caught |-> TRUE,
          result |-> CheckResult("Xcode Version", FALSE, None,
                                 <<"Error checking Xcode version: ">> \o exc.text, None)]
    ELSE [caught |-> FALSE, result |-> NoResult]

check_xcode_version(required_version, mock_version, run) ==
    LET override == XcodeOverride(required_version, mock_version)
        ext      == <<Ext("xcodebuild", run)>>
    IN  IF override # None THEN Return(override[1], << >>)
        ELSE LET t == XcodeTry(required_version, run)
             IN  IF ~t.raised THEN Return(t.result, ext)
                 ELSE IF XcodeExcept(t.exc).caught
                 THEN Return(XcodeExcept(t.exc).result, ext)
                 ELSE Raise(ext)

---------------------------------------------------------------------------
(* check_metal_toolchain *)

\* str.lower(), fragment by fragment
LowerFrag(f) ==
    CASE f = "T" -> "t" [] f = "R" -> "r" [] f = "U" -> "u" [] f = "E" -> "e"
      [] f = "Y" -> "y" [] f = "S" -> "s" [] f = "N" -> "n" [] f = "O" -> "o"
      [] f = "Cannot execute tool 'metal'" -> "cannot execute tool 'metal'"
      [] f = "No input files" -> "no input files"
      [] OTHER -> f

lower(s) == [i \in 1..Len(s) |-> LowerFrag(s[i])]

\* `needle in text` for a literal needle
contains(text, needle) == \E i \in 1..Len(text) : text[i] = needle

\* The longest run of non-whitespace at the start of s (the regular expression \S+)
RECURSIVE NonSpaceRun(_)
NonSpaceRun(s) ==
    IF s # << >> /\ Head(s) \notin Whitespace
    THEN <<Head(s)>> \o NonSpaceRun(Tail(s)) ELSE << >>

MetalVersionAt(s, i) ==
    s[i] = "metal version " /\ NonSpaceRun(SubSeq(s, i + 1, Len(s))) # << >>

\* re.search(r"metal version (\S+)", s): the leftmost match and its group 1
MetalVersionSearch(s) ==
    IF \E i \in 1..Len(s) : MetalVersionAt(s, i)
    THEN LET i == CHOOSE k \in 1..Len(s) :
                     MetalVersionAt(s, k) /\ \A j \in 1..(k - 1) : ~MetalVersionAt(s, j)
         IN  [ok |-> TRUE, g1 |-> NonSpaceRun(SubSeq(s, i + 1, Len(s)))]
    ELSE [ok |-> FALSE, g1 |-> << >>]

\* is_available of the mocked path
MetalMockAvailable(mock_available) ==
    lower(mock_available) \in {<<"t", "r", "u", "e">>, <<"1">>, <<"y", "e", "s">>}

\* Mutant: the remediation is attached whatever the outcome
MetalMockResultAlwaysFix(is_available) ==
    CheckResult("Metal Toolchain", is_available, None,
        <<"Metal toolchain is ", IF is_available THEN "available" ELSE "not available",
          " (mocked)">>,
        Some(<<"xcodebuild -downloadComponent MetalToolchain">>))

\* The result of the mocked path
MetalMockResult(is_available) ==
    CheckResult("Metal Toolchain", is_available, None,
        <<"Metal toolchain is ", IF is_available THEN "available" ELSE "not available",
          " (mocked)">>,
        IF ~is_available THEN Some(<<"xcodebuild -downloadComponent MetalToolchain">>)
        ELSE None)

MetalOverride(mock_available) ==
    IF ~Truthy(mock_available) THEN None
    ELSE Some(MetalMockResult(MetalMockAvailable(mock_available[1])))

MetalMissing ==
    CheckResult("Metal Toolchain", FALSE, None, <<"Metal toolchain not installed">>,
                Some(<<"xcodebuild -downloadComponent MetalToolchain">>))

MetalAvailable(output) ==
    LET version_match == MetalVersionSearch(output)
    IN  CheckResult("Metal Toolchain", TRUE,
            IF version_match.ok THEN Some(version_match.g1) ELSE None,
            <<"Metal toolchain is available">>
                \o (IF version_match.ok THEN <<"(">> \o version_match.g1 \o <<")">>
                    ELSE << >>),
            None)

MetalUnexpected(output) ==
    CheckResult("Metal Toolchain", FALSE, None,
                <<"Unexpected Metal toolchain error: ">> \o strip(output),
                Some(<<"xcodebuild -downloadComponent MetalToolchain">>))

\* Mutant: the 'no input files' marker is looked for first
MetalTryNoInputFilesFirst(run) ==
    IF run.kind = "raised" THEN [raised |-> TRUE, exc |-> run.exc, result |-> NoResult]
    ELSE LET output == run.stdout \o run.stderr
         IN  [raised |-> FALSE, exc |-> NoExc,
              result |-> IF contains(lower(output), "no input files")
                         THEN MetalAvailable(output)
                         ELSE IF contains(lower(output), "cannot execute tool 'metal'")
                         THEN MetalMissing
                         ELSE MetalUnexpected(output)]

MetalTry(run) ==
    IF run.kind = "raised" THEN [raised |-> TRUE, exc |-> run.exc, result |-> NoResult]
    ELSE LET output == run.stdout \o run.stderr
         IN  [raised |-> FALSE, exc |-> NoExc,
              result |-> IF contains(lower(output), "cannot execute tool 'metal'")
                         THEN MetalMissing
                         ELSE IF contains(lower(output), "no input files")
                         THEN MetalAvailable(output)
                         ELSE MetalUnexpected(output)]

\* except FileNotFoundError / except Exception as e
MetalExcept(exc) ==
    IF exc.type = "FileNotFoundError"
    THEN [caught |-> TRUE,
          result |-> CheckResult("Metal Toolchain", FALSE, None,
                        <<"xcrun command not found (Xcode Command Line Tools not installed)">>,
                        Some(<<"Install Xcode Command Line Tools: xcode-select --install">>))]
    ELSE IF exc.type \in ExceptionTypes
    THEN [caught |-> TRUE,
          result |-> CheckResult("Metal Toolchain", FALSE, None,
                        <<"Error checking Metal toolchain: ">> \o exc.text,
                        Some(<<"xcodebuild -downloadComponent MetalToolchain">>))]
    ELSE [caught |-> FALSE, result |-> NoResult]

check_metal_toolchain(mock_available, run) ==
    LET override == MetalOverride(mock_available)
        ext      == <<Ext("xcrun", run)>>
    IN  IF override # None THEN Return(override[1], << >>)
        ELSE LET t == MetalTry(run)
             IN  IF ~t.raised THEN Return(t.result, ext)
                 ELSE IF MetalExcept(t.exc).caught
                 THEN Return(MetalExcept(t.exc).result, ext)
                 ELSE Raise(ext)

---------------------------------------------------------------------------
(* Renderers: each gives the lines it prints *)

Rule == <<"======================================================================">>

\* Mutant: the status is taken from fix_command, as the banner is
StatusLineByFix(result) ==
    <<IF ~Truthy(result.fix_command) THEN "\\033[32m" ELSE "\\033[31m",
      IF ~Truthy(result.fix_command) THEN "\\u2713 PASS" ELSE "\\u2717 FAIL",
      "\\033[0m", " ", result.name>>

StatusLine(result) ==
    <<IF result.passed THEN "\\033[32m" ELSE "\\033[31m",
      IF result.passed THEN "\\u2713 PASS" ELSE "\\u2717 FAIL",
      "\\033[0m", " ", result.name>>

\* The lines of one pass of print_summary's loop
SummaryBlock(result) ==
    <<StatusLine(result)>>
    \o (IF Truthy(result.version) THEN << <<"     Version: ">> \o result.version[1] >>
        ELSE << >>)
    \o (IF result.message # << >> THEN << <<"     ">> \o result.message >> ELSE << >>)
    \o (IF Truthy(result.fix_command)
        THEN << <<"     Fix: ">> \o result.fix_command[1] >> ELSE << >>)
    \o << << >> >>

\* Mutant: only the last result decides the banner
SummaryAllPassedLast(rs) == rs = << >> \/ ~Truthy(rs[Len(rs)].fix_command)

\* print_summary's own all_passed after the loop
SummaryAllPassed(rs) == \A i \in 1..Len(rs) : ~Truthy(rs[i].fix_command)

RECURSIVE SummaryBlocks(_)
SummaryBlocks(rs) ==
    IF rs = << >> THEN << >> ELSE SummaryBlock(Head(rs)) \o SummaryBlocks(Tail(rs))

print_summary(rs) ==
    << <<"macOS Environment Check">>, Rule, << >> >>
    \o SummaryBlocks(rs)
    \o << Rule,
          IF SummaryAllPassed(rs)
          THEN <<"\\033[32m", "\\u2713 All checks passed!", "\\033[0m">>
          ELSE <<"\\033[31m",
                 "\\u2717 Some checks failed. Please address the issues above.",
                 "\\033[0m">>,
          << >> >>

\* json.dumps of a str: quoted, control characters escaped
JsonEscapeFrag(f) == CASE f = "\n" -> "\\n" [] f = "\t" -> "\\t" [] OTHER -> f
JsonStr(t) == <<"\"">> \o [i \in 1..Len(t) |-> JsonEscapeFrag(t[i])] \o <<"\"">>
\* Mutant: an absent value is written as the empty string
JsonOptStrEmpty(o) == IF o = None THEN <<"\"", "\"">> ELSE JsonStr(o[1])

JsonOptStr(o) == IF o = None THEN <<"null">> ELSE JsonStr(o[1])
JsonBool(b) == IF b THEN <<"true">> ELSE <<"false">>

\* One element of "checks", indented; last tells whether a comma follows
JsonCheck(r, last) ==
    << <<"    ", "{">>,
       <<"      ", "\"name\": ">> \o JsonStr(<<r.name>>) \o <<",">>,
       <<"      ", "\"passed\": ">> \o JsonBool(r.passed) \o <<",">>,
       <<"      ", "\"version\": ">> \o JsonOptStr(r.version) \o <<",">>,
       <<"      ", "\"message\": ">> \o JsonStr(r.message) \o <<",">>,
       <<"      ", "\"fix_command\": ">> \o JsonOptStr(r.fix_command),
       <<"    ", IF last THEN "}" ELSE "},">> >>

RECURSIVE JsonChecks(_)
JsonChecks(rs) ==
    IF rs = << >> THEN << >>
    ELSE JsonCheck(Head(rs), Len(rs) = 1) \o JsonChecks(Tail(rs))

\* print_json's own "all_passed"
JsonAllPassed(rs) == \A i \in 1..Len(rs) : rs[i].passed

print_json(rs) ==
    << <<"{">>,
       <<"  ", "\"all_passed\": ">> \o JsonBool(JsonAllPassed(rs)) \o <<",">> >>
    \o (IF rs = << >> THEN << <<"  ", "\"checks\": ", "[]">> >>
        ELSE << <<"  ", "\"checks\": ", "[">> >> \o JsonChecks(rs) \o << <<"  ", "]">> >>)
    \o << <<"}">> >>

\* Mutant: any() for all()
AnyPassed(rs) == \E i \in 1..Len(rs) : rs[i].passed

\* all(r.passed for r in results)
AllPassed(rs) == \A i \in 1..Len(rs) : rs[i].passed

\* sys.exit(0 if all_passed else 1)
ExitStatus(passed) == IF passed THEN 0 ELSE 1

---------------------------------------------------------------------------
(* The inputs: environment variables, command line, and the host's answers *)

VersionStr(major, minor) == str(major) \o <<".">> \o str(minor)

Minors == 0..MaxMinor
MacosMajors == (MajorMinor(REQUIRED_MACOS_VERSION).major - Spread)
                   ..(MajorMinor(REQUIRED_MACOS_VERSION).major + Spread)
XcodeMajors == (MajorOnly(REQUIRED_XCODE_VERSION).val - Spread)
                   ..(MajorOnly(REQUIRED_XCODE_VERSION).val + Spread)

MacosVersions == {VersionStr(major, minor) : major \in MacosMajors, minor \in Minors}
XcodeVersions == {VersionStr(major, minor) : major \in XcodeMajors, minor \in Minors}
                     \cup {str(major) : major \in XcodeMajors}

NotFound(cmd) ==
    Raised("FileNotFoundError", <<"[Errno 2] No such file or directory: ", cmd>>)
TimedOut(cmd) == Raised("TimeoutExpired", <<"Command ", cmd, " timed out">>)
Denied(cmd)   == Raised("PermissionError", <<"[Errno 13] Permission denied: ", cmd>>)

Platforms == {"Darwin", "Linux"}

\* What `sw_vers -productVersion` may do
SwVersFailures ==
    {NotFound("sw_vers"), TimedOut("sw_vers"), Denied("sw_vers"),
     Completed(1, << >>, <<"sw_vers: error">>)}
SwVersPrints(versions) ==
    {Completed(0, v \o <<"\n">>, << >>) : v \in versions}

\* What `xcodebuild -version` may do
XcodeFailures ==
    {NotFound("xcodebuild"), TimedOut("xcodebuild"), Denied("xcodebuild"),
     Completed(1, << >>, <<"xcode-select: error: tool 'xcodebuild' requires Xcode">>)}
XcodePrints(versions) ==
    {Completed(0, <<"Xcode", " ">> \o v \o <<"\n", "Build version 16A242d", "\n">>, << >>) :
        v \in versions}

\* What `xcrun -sdk macosx metal` may do
MainMetalRuns ==
    {NotFound("xcrun"), TimedOut("xcrun"),
     Completed(1, << >>, <<"error: ", "cannot execute tool 'metal'",
                           " due to missing Metal Toolchain", "\n">>),
     Completed(1, <<"Apple ", "metal version ", "32023.155", "\n">>,
                  <<"metal: error: ", "no input files", "\n">>),
     Completed(1, << >>, <<"xcrun: error: ", "invalid active developer path", "\n">>)}
MetalRuns ==
    MainMetalRuns
        \cup {Denied("xcrun"),
              Completed(1, << >>, <<"metal: error: ", "no input files", "\n">>),
              Completed(0, << >>, <<"metal: error: ", "No input files", "\n">>),
              Completed(1, <<"metal: error: ", "no input files", "\n">>,
                           <<"error: ", "Cannot execute tool 'metal'", "\n">>),
              Completed(0, << >>, <<"error: ", "cannot execute tool 'metal'", "\n">>),
              Completed(0, << >>, << >>)}

\* The values of the MOCK_* variables tried by a run of main
MainMacosMocks ==
    {None, Some(<< >>), Some(<<"1", "5">>)}
        \cup {Some(v) : v \in MacosVersions}
MainXcodeMocks ==
    {None, Some(<<"l", "a", "t", "e", "s", "t">>)}
        \cup {Some(VersionStr(major, minor)) : major \in XcodeMajors, minor \in Minors}
        \cup {Some(str(MajorOnly(REQUIRED_XCODE_VERSION).val))}
MainMetalMocks ==
    {None, Some(<< >>), Some(<<"t", "r", "u", "e">>), Some(<<"Y", "e", "s">>),
     Some(<<"f", "a", "l", "s", "e">>), Some(<<"m", "a", "y", "b", "e">>)}

\* The host's answers tried by a run of main
MainSwVers ==
    (SwVersFailures \ {Denied("sw_vers")})
        \cup SwVersPrints({REQUIRED_MACOS_VERSION,
                           VersionStr(MajorMinor(REQUIRED_MACOS_VERSION).major - 1, MaxMinor),
                           <<"a", "b", "c">>})
MainXcodebuild ==
    (XcodeFailures \ {Denied("xcodebuild")})
        \cup XcodePrints({REQUIRED_XCODE_VERSION,
                          VersionStr(MajorOnly(REQUIRED_XCODE_VERSION).val - 1, MaxMinor)})
        \cup {Completed(0, <<"Xcode", " ", "b", "e", "t", "a", "\n">>, << >>)}

\* The inputs tried by a direct call of a check function
CallMacosRequired == MacosVersions \cup {<<"1", "5">>}
CallMacosMocks ==
    {None, Some(<< >>)}
        \cup {Some(v) : v \in MacosVersions}
        \cup {Some(<<"1", "5">>), Some(<<"1", "5", ".">>), Some(<<".", "0">>),
              Some(<<"x", ".", "0">>), Some(<<"1", "5", ".", "x">>),
              Some(<<"1", "5", ".", "0", ".", "1">>), Some(<<" ", "1", "5", ".", "0">>),
              Some(<<"-", "1", ".", "5">>), Some(<<"1", "_", "5", ".", "0">>)}
CallSwVers ==
    SwVersFailures
        \cup SwVersPrints(MacosVersions
                \cup {<<"1", "5", ".", "0", ".", "1">>, <<"1", "5">>, <<"a", "b", "c">>,
                      << >>})

CallXcodeRequired == XcodeVersions \cup {<<"l", "a", "t", "e", "s", "t">>}
CallXcodeMocks ==
    {None, Some(<< >>)}
        \cup {Some(v) : v \in XcodeVersions}
        \cup {Some(<<"l", "a", "t", "e", "s", "t">>), Some(<<"1", "6", ".", "x">>),
              Some(<<".", "1", "6">>), Some(<<"1", "6", "b", "1">>)}
CallXcodebuild ==
    XcodeFailures
        \cup XcodePrints(XcodeVersions)
        \cup {Completed(0, <<"Xcode", " ", "b", "e", "t", "a", "\n">>, << >>),
              Completed(0, <<"Xcode", "1", "6", "\n">>, << >>),
              Completed(0, <<"Xcode", " ", "b", "e", "t", "a", "\n", "Xcode", "\t", " ",
                             "1", "6", ".", "2", ".", "1", "\n">>, << >>),
              Completed(0, << >>, << >>)}

CallMetalMocks ==
    MainMetalMocks
        \cup {Some(<<"T", "R", "U", "E">>), Some(<<"1">>), Some(<<"0">>), Some(<<"n", "o">>), Some(<<"o", "n">>)}

NoCall == [fn |-> "", required |-> << >>, mock |-> None, out |-> Return(NoResult, << >>)]

---------------------------------------------------------------------------
(* main *)

Init ==
    /\ env \in [MOCK_MACOS_VERSION : MainMacosMocks,
                MOCK_XCODE_VERSION : MainXcodeMocks,
                MOCK_METAL_AVAILABLE : MainMetalMocks]
    /\ args \in [json : BOOLEAN, quiet : BOOLEAN]
    /\ pc = "check_macos_version"
    /\ results = << >>
    /\ all_passed = None
    /\ trace = << >>
    /\ rendered = << >>
    /\ stdout = << >>
    /\ exit_code = None
    /\ call = NoCall

\* One element of main's results list: the check returns and main goes on to
\* next, or the check raises and the interpreter ends the process with status 1.
RunCheck(out, next) ==
    /\ trace' = trace \o out.ext
    /\ IF out.raised
       THEN /\ pc' = "crashed"
            /\ exit_code' = Some(1)
            /\ UNCHANGED results
       ELSE /\ pc' = next
            /\ results' = Append(results, out.result)
            /\ UNCHANGED exit_code
    /\ UNCHANGED <<env, args, all_passed, rendered, stdout, call>>

RunMacosCheck ==
    /\ pc = "check_macos_version"
    /\ \E platform_system \in Platforms, run \in MainSwVers :
          RunCheck(check_macos_version(REQUIRED_MACOS_VERSION, env.MOCK_MACOS_VERSION,
                                       platform_system, run),
                   "check_xcode_version")

\* Mutant: the remaining checks are skipped once the first has failed
RunXcodeCheckShortCircuit ==
    /\ pc = "check_xcode_version"
    /\ IF ~results[1].passed
       THEN /\ pc' = "aggregate"
            /\ UNCHANGED <<env, args, results, all_passed, trace, rendered, stdout,
                           exit_code, call>>
       ELSE \E run \in MainXcodebuild :
               RunCheck(check_xcode_version(REQUIRED_XCODE_VERSION, env.MOCK_XCODE_VERSION,
                                            run),
                        "check_metal_toolchain")

RunXcodeCheck ==
    /\ pc = "check_xcode_version"
    /\ \E run \in MainXcodebuild :
          RunCheck(check_xcode_version(REQUIRED_XCODE_VERSION, env.MOCK_XCODE_VERSION, run),
                   "check_metal_toolchain")

RunMetalCheck ==
    /\ pc = "check_metal_toolchain"
    /\ \E run \in MainMetalRuns :
          RunCheck(check_metal_toolchain(env.MOCK_METAL_AVAILABLE, run), "aggregate")

Aggregate ==
    /\ pc = "aggregate"
    /\ all_passed' = Some(AllPassed(results))
    /\ pc' = "output"
    /\ UNCHANGED <<env, args, results, trace, rendered, stdout, exit_code, call>>

\* Mutant: --json is tested before --quiet
OutputJsonFirst ==
    /\ pc = "output"
    /\ IF args.json
       THEN /\ rendered' = Append(rendered, "print_json")
            /\ stdout' = stdout \o print_json(results)
       ELSE IF args.quiet
       THEN UNCHANGED <<rendered, stdout>>
       ELSE /\ rendered' = Append(rendered, "print_summary")
            /\ stdout' = stdout \o print_summary(results)
    /\ pc' = "exit"
    /\ UNCHANGED <<env, args, results, all_passed, trace, exit_code, call>>

\* if args.quiet: pass / elif args.json: print_json / else: print_summary
Output ==
    /\ pc = "output"
    /\ IF args.quiet
       THEN UNCHANGED <<rendered, stdout>>
       ELSE IF args.json
       THEN /\ rendered' = Append(rendered, "print_json")
            /\ stdout' = stdout \o print_json(results)
       ELSE /\ rendered' = Append(rendered, "print_summary")
            /\ stdout' = stdout \o print_summary(results)
    /\ pc' = "exit"
    /\ UNCHANGED <<env, args, results, all_passed, trace, exit_code, call>>

Exit ==
    /\ pc = "exit"
    /\ exit_code' = Some(ExitStatus(all_passed[1]))
    /\ pc' = "exited"
    /\ UNCHANGED <<env, args, results, all_passed, trace, rendered, stdout, call>>

Next == RunMacosCheck \/ RunXcodeCheck \/ RunMetalCheck \/ Aggregate \/ Output \/ Exit

Spec == Init /\ [][Next]_vars

---------------------------------------------------------------------------
(* Direct calls of the check functions, with any required_version *)

InitCall ==
    /\ env = [MOCK_MACOS_VERSION |-> None, MOCK_XCODE_VERSION |-> None,
              MOCK_METAL_AVAILABLE |-> None]
    /\ args = [json |-> FALSE, quiet |-> FALSE]
    /\ pc = "library"
    /\ results = << >>
    /\ all_passed = None
    /\ trace = << >>
    /\ rendered = << >>
    /\ stdout = << >>
    /\ exit_code = None
    /\ call = NoCall

Called(fn, required, mock, out) ==
    /\ call' = [fn |-> fn, required |-> required, mock |-> mock, out |-> out]
    /\ UNCHANGED <<env, args, pc, results, all_passed, trace, rendered, stdout, exit_code>>

CallMacosCheck ==
    /\ pc = "library"
    /\ call = NoCall
    /\ \E required \in CallMacosRequired, mock \in CallMacosMocks,
          platform_system \in Platforms, run \in CallSwVers :
           Called("check_macos_version", required, mock,
                  check_macos_version(required, mock, platform_system, run))

CallXcodeCheck ==
    /\ pc = "library"
    /\ call = NoCall
    /\ \E required \in CallXcodeRequired, mock \in CallXcodeMocks, run \in CallXcodebuild :
           Called("check_xcode_version", required, mock,
                  check_xcode_version(required, mock, run))

CallMetalCheck ==
    /\ pc = "library"
    /\ call = NoCall
    /\ \E mock \in CallMetalMocks, run \in MetalRuns :
           Called("check_metal_toolchain", << >>, mock, check_metal_toolchain(mock, run))

NextCall == CallMacosCheck \/ CallXcodeCheck \/ CallMetalCheck

SpecCall == InitCall /\ [][NextCall]_vars

---------------------------------------------------------------------------
(* Properties *)

CheckOrder == <<"macOS Version", "Xcode Version", "Metal Toolchain">>

\* The host was asked `what` / what it answered
Asked(what) == \E i \in 1..Len(trace) : trace[i].call = what
AnswerTo(what) == trace[CHOOSE i \in 1..Len(trace) : trace[i].call = what].ret

\* The result of the check that ran the command `what`
ResultOf(what) ==
    results[CASE what = "sw_vers" -> 1 [] what = "xcodebuild" -> 2 [] what = "xcrun" -> 3]

ThreePassed == results[1].passed /\ results[2].passed /\ results[3].passed

\* C1: in every output mode main exits with status 0 exactly when all three
\* results have passed, and with status 1 otherwise; all_passed is the AND of
\* the three passed values.
C1_ExitIffAllPassed ==
    /\ pc # "crashed"
    /\ all_passed # None => Len(results) = 3 /\ all_passed[1] = ThreePassed
    /\ exit_code # None =>
          /\ pc = "exited"
          /\ exit_code = Some(IF ThreePassed THEN 0 ELSE 1)
    /\ pc = "exited" => exit_code # None

C1_Witness ==
    /\ pc = "exited"
    /\ args.quiet /\ ~args.json
    /\ results[1].passed /\ ~results[2].passed /\ results[3].passed
    /\ exit_code = Some(1)

\* C2: the three checks run exactly once each in the order macOS, Xcode, Metal,
\* whatever the earlier results; no external command is run twice; aggregation,
\* rendering and exit happen only once all three results are in the list.
C2_FixedOrderNoShortCircuit ==
    /\ Len(results) <= 3
    /\ \A i \in 1..Len(results) : results[i].name = CheckOrder[i]
    /\ \A i, j \in 1..Len(trace) : i # j => trace[i].call # trace[j].call
    /\ pc = "check_macos_version" => Len(results) = 0
    /\ pc = "check_xcode_version" => Len(results) = 1
    /\ pc = "check_metal_toolchain" => Len(results) = 2
    /\ pc \in {"aggregate", "output", "exit", "exited"} => Len(results) = 3
    /\ (all_passed # None \/ rendered # << >> \/ stdout # << >> \/ exit_code # None)
          => Len(results) = 3
    /\ Len(rendered) <= 1

C2_Witness ==
    /\ pc = "exited"
    /\ rendered = <<"print_summary">>
    /\ Len(results) = 3
    /\ ~results[1].passed /\ ~results[2].passed /\ results[3].passed

\* The spellings of MOCK_METAL_AVAILABLE that mean available
MetalTrueSpellings ==
    {<<"t", "r", "u", "e">>, <<"T", "R", "U", "E">>, <<"1">>, <<"y", "e", "s">>,
     <<"Y", "e", "s">>}

\* C3: a parseable override decides the result alone: the external command is
\* not run (for macOS the platform is not even looked at) and passed is the
\* comparison of the mocked value with the requirement: major.minor against
\* 15.0 for macOS, major against 16 for Xcode, truthiness for Metal.
C3_OverrideTakesPrecedence ==
    /\ \A major \in MacosMajors, minor \in Minors :
          (Len(results) >= 1 /\ env.MOCK_MACOS_VERSION = Some(VersionStr(major, minor)))
             => /\ ~Asked("platform.system")
                /\ ~Asked("sw_vers")
                /\ results[1].passed = ((major > 15) \/ (major = 15 /\ minor >= 0))
    /\ \A major \in XcodeMajors :
          (/\ Len(results) >= 2
           /\ \/ env.MOCK_XCODE_VERSION = Some(str(major))
              \/ \E minor \in Minors : env.MOCK_XCODE_VERSION = Some(VersionStr(major, minor)))
             => /\ ~Asked("xcodebuild")
                /\ results[2].passed = (major >= 16)
    /\ (Len(results) >= 3 /\ Truthy(env.MOCK_METAL_AVAILABLE))
          => /\ ~Asked("xcrun")
             /\ results[3].passed = (env.MOCK_METAL_AVAILABLE[1] \in MetalTrueSpellings)

C3_Witness ==
    /\ Len(results) = 3
    /\ trace = << >>
    /\ env.MOCK_MACOS_VERSION = Some(<<"1", "4", ".", "1">>)
    /\ env.MOCK_XCODE_VERSION = Some(<<"1", "6", ".", "0">>)
    /\ env.MOCK_METAL_AVAILABLE = Some(<<"Y", "e", "s">>)
    /\ ~results[1].passed /\ results[2].passed /\ results[3].passed

\* The trace of a macOS probe that printed version / of an Xcode probe
SwVersPrinted(version) ==
    <<Ext("platform.system", System("Darwin")),
      Ext("sw_vers", Completed(0, version \o <<"\n">>, << >>))>>
XcodebuildPrinted(version) ==
    <<Ext("xcodebuild",
          Completed(0, <<"Xcode", " ">> \o version \o <<"\n", "Build version 16A242d", "\n">>,
                    << >>))>>

\* C4: for a detected major.minor and a required reqMajor.reqMinor, the macOS
\* check passes exactly when major > reqMajor, or major = reqMajor and
\* minor >= reqMinor, in the mocked path and in the real-probe path alike.
C4_MacosComparator ==
    \A major \in MacosMajors, minor \in Minors, reqMajor \in MacosMajors, reqMinor \in Minors :
        (/\ call.fn = "check_macos_version"
         /\ call.required = VersionStr(reqMajor, reqMinor)
         /\ \/ call.mock = Some(VersionStr(major, minor))
            \/ call.out.ext = SwVersPrinted(VersionStr(major, minor)))
           => /\ ~call.out.raised
              /\ call.out.result.passed
                    = ((major > reqMajor) \/ (major = reqMajor /\ minor >= reqMinor))

C4_Witness ==
    /\ call.fn = "check_macos_version"
    /\ call.required = <<"1", "5", ".", "1">>
    /\ call.out.ext = SwVersPrinted(<<"1", "6", ".", "0">>)
    /\ call.out.result.passed
    /\ call.out.result.version = Some(<<"1", "6", ".", "0">>)

\* The spellings of a version with this major: alone, or with any minor
WithMajor(major) == {str(major)} \cup {VersionStr(major, minor) : minor \in Minors}

\* C5: the Xcode check compares majors only: passed is detected major >=
\* required major whatever the two minors are, in both paths.
C5_XcodeMajorOnly ==
    \A major \in XcodeMajors, reqMajor \in XcodeMajors :
        \A detected \in WithMajor(major), required \in WithMajor(reqMajor) :
            (/\ call.fn = "check_xcode_version"
             /\ call.required = required
             /\ \/ call.mock = Some(detected)
                \/ call.out.ext = XcodebuildPrinted(detected))
               => /\ ~call.out.raised
                  /\ call.out.result.passed = (major >= reqMajor)

C5_Witness ==
    /\ call.fn = "check_xcode_version"
    /\ call.required = <<"1", "6", ".", "1">>
    /\ call.out.ext = XcodebuildPrinted(<<"1", "6", ".", "0">>)
    /\ call.out.result.passed

\* What each check returns when its override variable is unset, given the
\* answers the host gave in this run
NoAnswer == Completed(0, << >>, << >>)
MacosAsIfAbsent ==
    check_macos_version(REQUIRED_MACOS_VERSION, None, AnswerTo("platform.system").kind,
                        IF Asked("sw_vers") THEN AnswerTo("sw_vers") ELSE NoAnswer).result
XcodeAsIfAbsent ==
    check_xcode_version(REQUIRED_XCODE_VERSION, None, AnswerTo("xcodebuild")).result
MetalAsIfAbsent == check_metal_toolchain(None, AnswerTo("xcrun")).result

\* An override that is set but is not major.minor / does not start with a major
MacosMalformed == env.MOCK_MACOS_VERSION # None /\ ~MajorMinor(env.MOCK_MACOS_VERSION[1]).ok
XcodeMalformed == env.MOCK_XCODE_VERSION # None /\ ~MajorOnly(env.MOCK_XCODE_VERSION[1]).ok

\* The words of a boolean flag
MetalFlagWords ==
    {<<"t", "r", "u", "e">>, <<"1">>, <<"y", "e", "s">>,
     <<"f", "a", "l", "s", "e">>, <<"0">>, <<"n", "o">>}
MetalMalformed ==
    env.MOCK_METAL_AVAILABLE # None /\ lower(env.MOCK_METAL_AVAILABLE[1]) \notin MetalFlagWords

VersionChecksFallThrough ==
    /\ (Len(results) >= 1 /\ MacosMalformed)
          => Asked("platform.system") /\ results[1] = MacosAsIfAbsent
    /\ (Len(results) >= 2 /\ XcodeMalformed)
          => Asked("xcodebuild") /\ results[2] = XcodeAsIfAbsent

\* C6 as stated: for each of the three checks, an override that is set but does
\* not parse is ignored: the real probe runs and the result is the one an unset
\* override gives.
C6_MalformedFallsThrough ==
    /\ VersionChecksFallThrough
    /\ (Len(results) >= 3 /\ MetalMalformed)
          => Asked("xcrun") /\ results[3] = MetalAsIfAbsent

\* C6 amended: for the macOS and the Xcode check, an override that is set but
\* does not parse is ignored: the real probe runs and the result is the one an
\* unset override gives.  The Metal check parses nothing: every non-empty value
\* is an override (a mocked result, failed unless the value is a spelling of
\* true, 1 or yes) and only the empty value falls through to the real probe.
C6_VersionOverridesFallThrough ==
    /\ VersionChecksFallThrough
    /\ (Len(results) >= 3 /\ Truthy(env.MOCK_METAL_AVAILABLE))
          => /\ ~Asked("xcrun")
             /\ results[3].message[3] = " (mocked)"
             /\ results[3].passed = (env.MOCK_METAL_AVAILABLE[1] \in MetalTrueSpellings)
    /\ (Len(results) >= 3 /\ env.MOCK_METAL_AVAILABLE = Some(<< >>))
          => Asked("xcrun") /\ results[3] = MetalAsIfAbsent

C6_Witness ==
    /\ Len(results) = 3
    /\ env.MOCK_MACOS_VERSION = Some(<<"1", "5">>)
    /\ env.MOCK_XCODE_VERSION = Some(<<"l", "a", "t", "e", "s", "t">>)
    /\ env.MOCK_METAL_AVAILABLE = Some(<<"m", "a", "y", "b", "e">>)
    /\ Asked("sw_vers") /\ results[1].passed
    /\ Asked("xcodebuild") /\ results[2].passed
    /\ ~Asked("xcrun") /\ ~results[3].passed

\* The ways a probe goes wrong
ProbeRaised(what) == Asked(what) /\ AnswerTo(what).kind = "raised"
ProbeNonZero(what) ==
    Asked(what) /\ AnswerTo(what).kind = "completed" /\ AnswerTo(what).returncode # 0
ProbeOutput(what) == AnswerTo(what).stdout \o AnswerTo(what).stderr
ProbeUnparseable(what) ==
    /\ Asked(what)
    /\ AnswerTo(what).kind = "completed"
    /\ CASE what = "sw_vers" -> ~MacosVersionMatch(strip(AnswerTo(what).stdout)).ok
         [] what = "xcodebuild" -> ~XcodeVersionSearch(strip(AnswerTo(what).stdout)).ok
         [] what = "xcrun" -> /\ ~contains(lower(ProbeOutput(what)), "no input files")
                              /\ ~contains(lower(ProbeOutput(what)),
                                           "cannot execute tool 'metal'")

Commands == {"sw_vers", "xcodebuild", "xcrun"}

\* Nothing stops the run: no check raises (main never ends in an uncaught
\* exception), every position of main before the exit is one of its steps, and
\* main exits only after three results, with status 0 or 1
RunCompletes ==
    /\ pc \in {"check_macos_version", "check_xcode_version", "check_metal_toolchain",
               "aggregate", "output", "exit", "exited"}
    /\ exit_code # None => pc = "exited"
    /\ pc = "exited" => Len(results) = 3 /\ exit_code \in {Some(0), Some(1)}

\* C7 as stated: whatever the external command of a check does (not found,
\* non-zero exit, timeout, unparseable output, another exception) the check
\* returns a failed result instead of raising, and the run completes.
C7_EveryProbeFailureFails ==
    /\ RunCompletes
    /\ \A what \in Commands :
          (ProbeRaised(what) \/ ProbeNonZero(what) \/ ProbeUnparseable(what))
             => ~ResultOf(what).passed

\* C7 amended: no check ever raises and the run completes.  A command that is
\* not found, times out or raises otherwise, or whose output is unparseable,
\* gives a failed result; so does a non-zero exit of sw_vers or xcodebuild.  The
\* Metal check does not look at the exit status: a non-zero exit whose output
\* has the 'no input files' marker and not the 'cannot execute tool' marker
\* passes.
C7_NoProbeOutcomeIsFatal ==
    /\ RunCompletes
    /\ \A what \in Commands :
          (ProbeRaised(what) \/ ProbeUnparseable(what)) => ~ResultOf(what).passed
    /\ \A what \in {"sw_vers", "xcodebuild"} : ProbeNonZero(what) => ~ResultOf(what).passed
    /\ ProbeNonZero("xcrun")
          => ResultOf("xcrun").passed
                = (/\ contains(lower(ProbeOutput("xcrun")), "no input files")
                   /\ ~contains(lower(ProbeOutput("xcrun")), "cannot execute tool 'metal'"))

C7_Witness ==
    /\ pc = "exited"
    /\ exit_code = Some(1)
    /\ ProbeRaised("sw_vers") /\ AnswerTo("sw_vers").exc.type = "TimeoutExpired"
    /\ ProbeUnparseable("xcodebuild")
    /\ ProbeNonZero("xcrun") /\ results[3].passed

\* C8: in every result, fix_command is populated exactly when passed is false.
C8_FixIffFailed ==
    \A i \in 1..Len(results) : (results[i].fix_command # None) = ~results[i].passed

\* The lines of the summary
IsStatusLine(line) == Len(line) = 5 /\ line[2] \in {"\\u2713 PASS", "\\u2717 FAIL"}
IsFixLine(line) == line # << >> /\ line[1] = "     Fix: "

\* C9: a result that passed has no fix_command, and the summary prints no
\* 'Fix:' line under a passing check: the status line above any 'Fix:' line
\* says FAIL.
C9_NoFixWhenPassed ==
    /\ \A i \in 1..Len(results) : results[i].passed => results[i].fix_command = None
    /\ \A k \in 1..Len(stdout) :
          IsFixLine(stdout[k])
             => \E j \in 1..(k - 1) :
                   /\ IsStatusLine(stdout[j])
                   /\ stdout[j][2] = "\\u2717 FAIL"
                   /\ \A m \in (j + 1)..(k - 1) : ~IsStatusLine(stdout[m])

C9_Witness ==
    /\ rendered = <<"print_summary">>
    /\ results[1].passed /\ results[2].passed /\ ~results[3].passed
    /\ \E k \in 1..Len(stdout) : IsFixLine(stdout[k])
    /\ \E k \in 1..Len(stdout) : IsStatusLine(stdout[k]) /\ stdout[k][2] = "\\u2713 PASS"

\* C10: with --quiet, alone or together with --json, nothing is written to
\* standard output, no renderer is called, and the exit status alone carries the
\* verdict: 0 when all three checks passed, 1 otherwise.
C10_QuietIsSilent ==
    args.quiet
       => /\ stdout = << >>
          /\ rendered = << >>
          /\ pc = "exited" => exit_code = Some(IF ThreePassed THEN 0 ELSE 1)

C10_Witness ==
    /\ pc = "exited"
    /\ args.quiet /\ args.json
    /\ ~ThreePassed
    /\ exit_code = Some(1)
    /\ stdout = << >>

\* What a reader takes from the two reports: the status lines and the banner of
\* the summary, the lines of one key of the JSON document
IsBanner(line) ==
    /\ Len(line) = 3
    /\ line[2] \in {"\\u2713 All checks passed!",
                    "\\u2717 Some checks failed. Please address the issues above."}
SaysPass(line) == line[2] = "\\u2713 PASS"
SaysSuccess(line) == line[2] = "\\u2713 All checks passed!"
JsonLines(lines, key) == SelectSeq(lines, LAMBDA l : Len(l) >= 3 /\ l[2] = key)
JsonSaysTrue(line) == line[3] = "true"

\* Every check took its answer from its MOCK_* variable: nothing was asked
AllMocked == Len(results) = 3 /\ trace = << >>

\* C11: when all three checks are mocked, the summary and the JSON document of
\* the same results give the same pass/fail for each check, in the same order,
\* and the same verdict: the banner of the summary is the success banner
\* exactly when the document's all_passed is true.
C11_RenderersAgree ==
    AllMocked
       => LET summary  == print_summary(results)
              document == print_json(results)
              statuses == SelectSeq(summary, IsStatusLine)
              passed   == JsonLines(document, "\"passed\": ")
              banner   == SelectSeq(summary, IsBanner)
              verdict  == JsonLines(document, "\"all_passed\": ")
          IN  /\ Len(statuses) = 3 /\ Len(passed) = 3
              /\ \A i \in 1..3 : SaysPass(statuses[i]) = JsonSaysTrue(passed[i])
              /\ Len(banner) = 1 /\ Len(verdict) = 1
              /\ SaysSuccess(banner[1]) = JsonSaysTrue(verdict[1])

C11_Witness ==
    /\ pc = "exited"
    /\ AllMocked
    /\ results[1].passed /\ results[2].passed /\ ~results[3].passed
    /\ rendered = <<"print_json">>
    /\ ~JsonSaysTrue(JsonLines(stdout, "\"all_passed\": ")[1])
    /\ ~SaysSuccess(SelectSeq(print_summary(results), IsBanner)[1])

\* The keys of one element of "checks", in the order they are written
JsonKeys ==
    <<"\"name\": ", "\"passed\": ", "\"version\": ", "\"message\": ", "\"fix_command\": ">>

\* The line of an optional value: null when absent, a quoted string otherwise
JsonOptionalLine(line, value) ==
    IF value = None THEN line[3] = "null" /\ (Len(line) = 3 \/ line[4] = ",")
    ELSE line[3] = "\"" /\ Len(line) >= 4

\* C12: the JSON document of any result list (the list main has built so far,
\* of zero to three results; the one main prints is that of its three results)
\* has a fixed shape: all_passed is the conjunction of the results' passed
\* values, and "checks" has one element per result in list order, each with the
\* five keys name, passed, version, message, fix_command in every case, an
\* absent version or fix_command written as null.
C12_JsonShape ==
    LET n        == Len(results)
        document == print_json(results)
        entry(i) == SubSeq(document, 4 + 7 * (i - 1), 3 + 7 * i)
    IN  /\ rendered = <<"print_json">> => stdout = document
        /\ Len(document) = (IF n = 0 THEN 4 ELSE 7 * n + 5)
        /\ document[1] = <<"{">> /\ document[Len(document)] = <<"}">>
        /\ document[2] = <<"  ", "\"all_passed\": ",
                           IF \A i \in 1..n : results[i].passed
                           THEN "true" ELSE "false", ",">>
        /\ document[3] = <<"  ", "\"checks\": ", IF n = 0 THEN "[]" ELSE "[">>
        /\ \A i \in 1..n :
              /\ entry(i)[1] = <<"    ", "{">>
              /\ entry(i)[7] = <<"    ", IF i = n THEN "}" ELSE "},">>
              /\ \A k \in 1..5 : entry(i)[k + 1][2] = JsonKeys[k]
              /\ entry(i)[2][4] = results[i].name
              /\ entry(i)[3][3] = (IF results[i].passed THEN "true" ELSE "false")
              /\ JsonOptionalLine(entry(i)[4], results[i].version)
              /\ entry(i)[5][3] = "\""
              /\ JsonOptionalLine(entry(i)[6], results[i].fix_command)

C12_Witness ==
    /\ rendered = <<"print_json">>
    /\ Len(results) = 3
    /\ results[1].version # None /\ results[1].fix_command = None
    /\ results[2].version = None /\ results[2].fix_command = None /\ ~results[2].passed
    /\ results[3].version = None /\ results[3].fix_command # None
    /\ stdout[4 + 7 + 3] = <<"      ", "\"version\": ", "null", ",">>
    /\ stdout[4 + 7 + 5] = <<"      ", "\"fix_command\": ", "null">>

\* A direct call of a check that ran its command: the command, what the host
\* answered, and the result returned
CallCommand ==
    CASE call.fn = "check_macos_version" -> "sw_vers"
      [] call.fn = "check_xcode_version" -> "xcodebuild"
      [] call.fn = "check_metal_toolchain" -> "xcrun"
      [] OTHER -> ""
Ran == \E i \in 1..Len(call.out.ext) : call.out.ext[i].call = CallCommand
Answer == call.out.ext[Len(call.out.ext)].ret
AnswerRaised(type) == Ran /\ Answer.kind = "raised" /\ Answer.exc.type = type
AnswerNonZero == Ran /\ Answer.kind = "completed" /\ Answer.returncode # 0

\* C13: in each of the three checks, when no override applies and the command
\* is not found or exits non-zero, the check returns a failed result whose
\* fix_command is populated.
C13_NotFoundOrNonZeroCarriesFix ==
    (AnswerRaised("FileNotFoundError") \/ AnswerNonZero)
       => /\ ~call.out.raised
          /\ ~call.out.result.passed
          /\ Truthy(call.out.result.fix_command)

\* The same check called again, without override, the host answering run
CheckAgain(run) ==
    CASE call.fn = "check_macos_version"
             -> check_macos_version(call.required, None, "Darwin", run)
      [] call.fn = "check_xcode_version" -> check_xcode_version(call.required, None, run)
      [] call.fn = "check_metal_toolchain" -> check_metal_toolchain(None, run)

\* The non-zero exits of the command of the check called
NonZeroExits ==
    {run \in (CASE call.fn = "check_macos_version" -> CallSwVers
                [] call.fn = "check_xcode_version" -> CallXcodebuild
                [] call.fn = "check_metal_toolchain" -> MetalRuns) :
        run.kind = "completed" /\ run.returncode # 0}

\* C14: in each of the three checks a timeout of the command is not fatal and
\* is treated as a non-zero exit of that command is: it gives a failed result
\* with a message, and a fix_command exactly when the non-zero exit gives one.
C14_TimeoutLikeNonZeroExit ==
    AnswerRaised("TimeoutExpired")
       => /\ ~call.out.raised
          /\ ~call.out.result.passed
          /\ call.out.result.message # << >>
          /\ \A run \in NonZeroExits :
                /\ ~CheckAgain(run).raised
                /\ CheckAgain(run).result.passed = call.out.result.passed
                /\ Truthy(CheckAgain(run).result.fix_command)
                      = Truthy(call.out.result.fix_command)

\* part occurs in text
Includes(text, part) ==
    \E i \in 1..(Len(text) - Len(part) + 1) : SubSeq(text, i, i + Len(part) - 1) = part

\* The command of a version check exited 0 and what it printed has no version
AnswerUnparsed ==
    /\ Ran
    /\ Answer.kind = "completed" /\ Answer.returncode = 0
    /\ CASE call.fn = "check_macos_version" -> ~MacosVersionMatch(strip(Answer.stdout)).ok
         [] call.fn = "check_xcode_version" -> ~XcodeVersionSearch(strip(Answer.stdout)).ok
         [] OTHER -> FALSE

\* C15 as stated: in the macOS and the Xcode check, when the command succeeds
\* and its output has no version, the result is failed, has no fix_command, and
\* its message includes the text the command printed.
C15_UnparsedHasNoFix ==
    AnswerUnparsed
       => /\ ~call.out.raised
          /\ ~call.out.result.passed
          /\ call.out.result.fix_command = None
          /\ Includes(call.out.result.message, strip(Answer.stdout))

\* C15 amended: in the macOS and the Xcode check, when the command succeeds
\* and its output has no version, the result is failed and its message includes
\* the text the command printed; the macOS result has no fix_command, the Xcode
\* result carries the fix_command 'Ensure Xcode is properly installed'.
C15_UnparsedFixOnlyForXcode ==
    AnswerUnparsed
       => /\ ~call.out.raised
          /\ ~call.out.result.passed
          /\ Includes(call.out.result.message, strip(Answer.stdout))
          /\ call.fn = "check_macos_version" => call.out.result.fix_command = None
          /\ call.fn = "check_xcode_version"
                => call.out.result.fix_command
                      = Some(<<"Ensure Xcode is properly installed">>)

C15_Witness ==
    /\ call.fn = "check_xcode_version"
    /\ AnswerUnparsed
    /\ Answer.stdout = <<"Xcode", " ", "b", "e", "t", "a", "\n">>
    /\ call.out.result.message
          = <<"Could not parse Xcode version from: ", "Xcode", " ", "b", "e", "t", "a">>
    /\ call.out.result.fix_command # None

\* What xcrun wrote, stdout then stderr, and the two markers in it, in any
\* letter case
MetalOutput == Answer.stdout \o Answer.stderr
HasCannotExecute == contains(lower(MetalOutput), "cannot execute tool 'metal'")
HasNoInputFiles == contains(lower(MetalOutput), "no input files")

\* C16: without override, when xcrun completes, the Metal check sorts its
\* output (stdout then stderr) into three cases whatever the exit status: with
\* the 'cannot execute tool 'metal'' marker the check fails, also when the 'no
\* input files' marker is there too; otherwise with the 'no input files' marker
\* it passes, with no fix_command; any other output gives a failed result
\* whose message carries the output.
C16_MetalThreeCases ==
    (call.fn = "check_metal_toolchain" /\ Ran /\ Answer.kind = "completed")
       => LET result == call.out.result
          IN  /\ ~call.out.raised
              /\ \A returncode \in {0, 1} :
                    check_metal_toolchain(
                        None, Completed(returncode, Answer.stdout, Answer.stderr)).result
                       = result
              /\ HasCannotExecute
                    => /\ ~result.passed
                       /\ result.message = <<"Metal toolchain not installed">>
              /\ (~HasCannotExecute /\ HasNoInputFiles)
                    => result.passed /\ result.fix_command = None
              /\ (~HasCannotExecute /\ ~HasNoInputFiles)
                    => /\ ~result.passed
                       /\ result.message
                             = <<"Unexpected Metal toolchain error: ">> \o strip(MetalOutput)

C16_Witness ==
    /\ call.fn = "check_metal_toolchain"
    /\ Ran
    /\ Answer.kind = "completed"
    /\ HasCannotExecute /\ HasNoInputFiles
    /\ ~call.out.result.passed
    /\ call.out.result.fix_command # None

\* The FAIL and the PASS status lines among lines
FailLines(lines) == SelectSeq(lines, LAMBDA l : IsStatusLine(l) /\ ~SaysPass(l))
PassLines(lines) == SelectSeq(lines, LAMBDA l : IsStatusLine(l) /\ SaysPass(l))

\* C17: the summary of any result list (the list main has built so far, of
\* zero to three results; the one main prints is that of its three results)
\* has one status line per result, in list order, saying PASS when the result
\* passed and FAIL when it did not; so there are as many FAIL lines as failed
\* results and as many PASS lines as passed ones.
C17_OneStatusLinePerResult ==
    LET summary  == print_summary(results)
        statuses == SelectSeq(summary, IsStatusLine)
        n        == Len(results)
    IN  /\ rendered = <<"print_summary">> => stdout = summary
        /\ Len(statuses) = n
        /\ \A i \in 1..n : /\ SaysPass(statuses[i]) = results[i].passed
                           /\ statuses[i][5] = results[i].name
        /\ Len(FailLines(summary)) = Cardinality({i \in 1..n : ~results[i].passed})
        /\ Len(PassLines(summary)) = Cardinality({i \in 1..n : results[i].passed})

C17_Witness ==
    /\ pc = "exited"
    /\ rendered = <<"print_summary">>
    /\ \A i \in 1..3 : ~results[i].passed
    /\ results[1].fix_command = None
    /\ Len(FailLines(stdout)) = 3
    /\ Len(PassLines(stdout)) = 0

\* C18: for every result list main can build, real probe failures included, the
\* banner that closes the summary agrees with the verdict and the exit status:
\* it is 'All checks passed!' exactly when every result passed, that is when
\* all_passed is true and the exit status is 0, and 'Some checks failed'
\* otherwise.
C18_BannerAgreesWithVerdict ==
    rendered = <<"print_summary">>
       => LET banner == SelectSeq(stdout, IsBanner)
          IN  /\ Len(banner) = 1
              /\ SaysSuccess(banner[1]) = (\A i \in 1..Len(results) : results[i].passed)
              /\ SaysSuccess(banner[1]) = all_passed[1]
              /\ pc = "exited" => SaysSuccess(banner[1]) = (exit_code = Some(0))

====
